---- MODULE Spec2Model ----
(***************************************************************************)
(* Music Bingo game generator (musicbingo/generator.py): GameGenerator and *)
(* BingoTicket as a state machine.                                         *)
(*                                                                         *)
(* A song is identified by its ref_id, here its 0-based index in the pool  *)
(* handed to generate().  A BingoTicket is the record                      *)
(*   [card_id, card_tracks, ticket_number]   (ticket_number 0 is None).    *)
(* The entropy source (secrets.randbelow, random.shuffle) is an input of   *)
(* the program: rng is either free (a draw may return any value of its     *)
(* range) or the position on a tape of draws.                              *)
(*                                                                         *)
(* The panel of songs of the GUI (musicbingo/gui/songspanel.py): a         *)
(* SongsPanel is the record panel.                                         *)
(***************************************************************************)
EXTENDS Integers, Sequences, FiniteSets, TLC

VARIABLES
    options,         \* Options: mode, game_id, rows, columns, number_of_cards, page_order
    num_songs,       \* len(songs) of the pool given to generate()
    song_id,         \* Song.song_id of every song of the pool (0: not assigned)
    songs,           \* generate_mp3: the songs in the order gen_track_order gave
    tracks,          \* the play order append_songs built: a sequence of ref_ids
    index,           \* append_songs: the loop counter
    abort,           \* progress.abort
    observed,        \* some "if self.progress.abort" has read True
    written,         \* the outputs persisted so far
    written_late,    \* the outputs persisted after the abort was observed
    error,           \* the exception that left the entry point ("" when none)
    pc,              \* the position of the control thread
    used_card_ids,   \* GameGenerator.used_card_ids
    cards,           \* generate_all_cards: cards
    good_cards,      \* generate_all_cards: good_cards
    gac,             \* generate_all_cards: the tier counts, offset, idx, start
    irc,             \* insert_random_cards: point, num_cards, i, rand_point,
                     \* increment, start_point
    gap,             \* generate_at_point: amount, from_end, count, cards, ret
    card,            \* the BingoTicket select_songs_for_ticket is filling
    picked_indices,  \* select_songs_for_ticket: picked_indices
    win_point,       \* generate_at_point: win_point of the ticket just made (0: none)
    rng,             \* the entropy source: 0 when free, else the position on the tape
    drawn_from,      \* the modules random draws have been asked of so far
    args,            \* the arguments of a function called on its own
    cmb,             \* combinations: the int being computed, the next factor, and
                     \* (no value of the program) a row of Pascal's triangle
    returned,        \* the value a function called on its own has returned
    discarded,       \* (no value of the program) a draw of songs has been thrown
                     \* away, for its key in use, for the ticket being filled
    panel            \* SongsPanel: _data, _hidden, _num_songs, _duration, the
                     \* items of tree, the text of footer, and the exception
                     \* that left the last call ("" when none)

vars == <<options, num_songs, song_id, songs, tracks, index, abort, observed, written,
          written_late, error, pc, used_card_ids, cards, good_cards, gac, irc,
          gap, card, picked_indices, win_point, rng, drawn_from, args,
          cmb, returned, discarded, panel>>

----------------------------------------------------------------------------
(* Bounds of the model. *)

\* ticket counts explored: MIN_CARDS - 1 .. MaxCards
MaxCards == 15
\* number of tapes of draws explored
NumSeeds == 2
\* number of play orders explored for one pool
NumOrders == 2

----------------------------------------------------------------------------
(* Program constants. *)

MIN_CARDS == 15

\* musicbingo/primes.py, a module outside the sources modelled: an ascending
\* table of primes.  Its first thirty entries stand for the table.
PRIME_NUMBERS ==
    <<2, 3, 5, 7, 11, 13, 17, 19, 23, 29, 31, 37, 41, 43, 47,
      53, 59, 61, 67, 71, 73, 79, 83, 89, 97, 101, 103, 107, 109, 113>>

MAX_SONGS == Len(PRIME_NUMBERS)

\* len(Assets.QUIZ_COUNTDOWN_POSITIONS), line 190; the table is in
\* musicbingo/assets.py, outside the sources modelled, and only QUIZ mode
\* reads it
QUIZ_COUNTDOWN_POSITIONS == 10

----------------------------------------------------------------------------
(* Sequences and arithmetic. *)

Range(s) == {s[i] : i \in 1..Len(s)}

Max(a, b) == IF a >= b THEN a ELSE b

Min(a, b) == IF a <= b THEN a ELSE b

\* math.ceil(a / b) for a >= 0, b > 0
CeilDiv(a, b) == (a + b - 1) \div b

\* list.insert(i, x): i is 0-based, and an i beyond the end appends
ListInsert(s, i, x) ==
    LET k == Min(i, Len(s))
    IN  SubSeq(s, 1, k) \o <<x>> \o SubSeq(s, k + 1, Len(s))

----------------------------------------------------------------------------
(* Python's numbers.  An int is unbounded: where it can pass 2^31 it is     *)
(* modelled as the sequence of its digits in base LimbBase, lowest digit    *)
(* first (<<>> is 0).  A float is a double: 53 significant bits, results    *)
(* rounded to the nearest double, ties to the even mantissa.                *)

LimbBase == 10000000

\* a * m + carry for a Python int a and small numbers m, carry
RECURSIVE TimesPlus(_, _, _)
TimesPlus(a, m, carry) ==
    IF a = <<>>
    THEN IF carry = 0 THEN <<>>
         ELSE <<carry % LimbBase>> \o TimesPlus(<<>>, m, carry \div LimbBase)
    ELSE LET v == a[1] * m + carry
         IN  <<v % LimbBase>> \o TimesPlus(Tail(a), m, v \div LimbBase)

\* a without the zero digits at its top
RECURSIVE Trim(_)
Trim(a) ==
    IF a # <<>> /\ a[Len(a)] = 0 THEN Trim(SubSeq(a, 1, Len(a) - 1)) ELSE a

\* divmod(a, m) for a Python int a and a small number m: q still untrimmed
RECURSIVE DivMod(_, _)
DivMod(a, m) ==
    IF a = <<>>
    THEN [q |-> <<>>, r |-> 0]
    ELSE LET top == DivMod(Tail(a), m)
             v == top.r * LimbBase + a[1]
         IN  [q |-> <<v \div m>> \o top.q, r |-> v % m]

\* a < b for Python ints
RECURSIVE BigLess(_, _)
BigLess(a, b) ==
    IF Len(a) # Len(b) THEN Len(a) < Len(b)
    ELSE IF a = <<>> THEN FALSE
    ELSE IF a[Len(a)] # b[Len(b)] THEN a[Len(a)] < b[Len(b)]
    ELSE BigLess(SubSeq(a, 1, Len(a) - 1), SubSeq(b, 1, Len(b) - 1))

\* 2 ** e as a Python int
RECURSIVE TwoToThe(_)
TwoToThe(e) ==
    IF e = 0 THEN <<1>>
    ELSE IF e < 7 THEN TimesPlus(TwoToThe(e - 1), 2, 0)
    ELSE TimesPlus(TwoToThe(e - 7), 128, 0)

\* a * 2 ** e
RECURSIVE ShiftLeft(_, _)
ShiftLeft(a, e) == IF e = 0 THEN a ELSE ShiftLeft(TimesPlus(a, 2, 0), e - 1)

\* The double nearest to the integer m * 2**e + (guard, sticky bits), ties to
\* the even mantissa: the mantissa of a double has 53 bits.
RECURSIVE to_double(_, _, _, _)
to_double(m, e, guard, sticky) ==
    IF BigLess(m, TwoToThe(53))
    THEN LET odd == m # <<>> /\ m[1] % 2 = 1
             up == guard /\ (sticky \/ odd)
         IN  ShiftLeft(IF up THEN TimesPlus(m, 1, 1) ELSE m, e)
    ELSE LET d == DivMod(m, 2)
         IN  to_double(Trim(d.q), e + 1, d.r = 1, sticky \/ guard)

\* a + b for Python ints
RECURSIVE BigPlus(_, _, _)
BigPlus(a, b, carry) ==
    IF a = <<>> /\ b = <<>>
    THEN IF carry = 0 THEN <<>> ELSE <<carry>>
    ELSE LET v == (IF a = <<>> THEN 0 ELSE a[1]) + (IF b = <<>> THEN 0 ELSE b[1]) + carry
         IN  <<v % LimbBase>>
             \o BigPlus(IF a = <<>> THEN <<>> ELSE Tail(a),
                        IF b = <<>> THEN <<>> ELSE Tail(b), v \div LimbBase)

\* a // 2 ** e for a Python int a, and whether anything was left over
RECURSIVE ShiftRight(_, _, _)
ShiftRight(a, e, inexact) ==
    IF e = 0 THEN [q |-> a, inexact |-> inexact]
    ELSE LET step == IF e >= 7 THEN 7 ELSE 1
             d == DivMod(a, IF e >= 7 THEN 128 ELSE 2)
         IN  ShiftRight(Trim(d.q), e - step, inexact \/ d.r # 0)

\* A double that is 0.0 or at least 1.0 and below 2^10 is a multiple of
\* 2^-52: it is held as the int x * 2^52.
\* float(a) / float(b) for ints 0 < b <= a: the quotient, rounded
fl_div(a, b) ==
    LET d == DivMod(TimesPlus(TwoToThe(53), a, 0), b)
        twice == to_double(Trim(d.q), 0, FALSE, d.r # 0)
    IN  Trim(DivMod(twice, 2).q)

\* x + y for doubles: the sum, rounded
fl_add(x, y) == to_double(BigPlus(x, y, 0), 0, FALSE, FALSE)

\* int(math.ceil(x)) for a double x
fl_ceil(x) ==
    LET s == ShiftRight(x, 52, FALSE)
        whole == IF s.q = <<>> THEN 0 ELSE s.q[1]
    IN  IF s.inexact THEN whole + 1 ELSE whole

RECURSIVE factorial(_)
factorial(n) == IF n <= 1 THEN 1 ELSE n * factorial(n - 1)

\* The quotient of the factorials is an integer, so float division and int()
\* return it exactly while it is below 2^53.
combinations(total, select) ==
    IF select > total
    THEN 0
    ELSE factorial(total) \div (factorial(select) * factorial(total - select))

songs_per_ticket(o) == o.rows * o.columns

\* int(round(1.5 * spt + 0.5)): Python rounds a half to the even neighbour.
\* 1.5 * spt + 0.5 = (3 * spt + 1) / 2 is a half exactly when spt is even.
min_songs(o) ==
    LET twice == 3 * songs_per_ticket(o) + 1
        low == twice \div 2
    IN  IF twice % 2 = 0 THEN low
        ELSE IF low % 2 = 0 THEN low ELSE low + 1

\* check_options without its test of the ticket count against MIN_CARDS
check_options_without_min_cards(o, n) ==
    IF n = 0 THEN "Song list cannot be empty"
    ELSE IF o.mode = "QUIZ"
    THEN IF n > QUIZ_COUNTDOWN_POSITIONS
         THEN "Maximum number of songs for a quiz"
         ELSE ""
    ELSE IF o.mode # "BINGO" THEN "Invalid mode"
    ELSE IF o.game_id = "" THEN "Game ID cannot be empty"
    ELSE IF n < min_songs(o) THEN "At least min_songs songs are required"
    ELSE IF n > MAX_SONGS THEN "Maximum number of songs"
    ELSE IF o.number_of_cards > combinations(n, songs_per_ticket(o))
    THEN "songs only allows max_cards cards to be generated"
    ELSE ""

\* check_options: the error raised, "" when the options are accepted
check_options(o, n) ==
    IF n = 0 THEN "Song list cannot be empty"
    ELSE IF o.mode = "QUIZ"
    THEN IF n > QUIZ_COUNTDOWN_POSITIONS
         THEN "Maximum number of songs for a quiz"
         ELSE ""
    ELSE IF o.mode # "BINGO" THEN "Invalid mode"
    ELSE IF o.game_id = "" THEN "Game ID cannot be empty"
    ELSE IF n < min_songs(o) THEN "At least min_songs songs are required"
    ELSE IF n > MAX_SONGS THEN "Maximum number of songs"
    ELSE IF o.number_of_cards < MIN_CARDS THEN "At least MIN_CARDS tickets are required"
    ELSE IF o.number_of_cards > combinations(n, songs_per_ticket(o))
    THEN "songs only allows max_cards cards to be generated"
    ELSE ""

----------------------------------------------------------------------------
(* The entropy source. *)

\* rng = 0 is the free source, rng > 0 a position on the tape
FreeSource == rng = 0

\* One draw of secrets.randbelow(k): the values explored and the source after
\* the draw.  A free source returns any value below k; a tape returns the
\* value at its position and moves on.
Draw(k) ==
    IF FreeSource
    THEN {[value |-> v, rng |-> rng] : v \in 0..(k - 1)}
    ELSE {[value |-> (rng \div 3) % k, rng |-> (rng * 11) % 1009]}

\* randrange(start, end) = start + secrets.randbelow(end - start)
randrange(start, end) ==
    {[value |-> start + d.value, rng |-> d.rng] : d \in Draw(end - start)}

\* The arrangement of s that the draw `code` of a shuffle selects.
RECURSIVE Arrange(_, _)
Arrange(s, code) ==
    IF Len(s) = 0
    THEN <<>>
    ELSE LET k == (code % Len(s)) + 1
             rest == SubSeq(s, 1, k - 1) \o SubSeq(s, k + 1, Len(s))
         IN  <<s[k]>> \o Arrange(rest, code \div Len(s))

\* random.shuffle(s)
shuffle(s) ==
    {[value |-> Arrange(s, d.value), rng |-> d.rng] : d \in Draw(factorial(Len(s)))}

\* The play orders explored for a pool of n songs: rotations of the pool and
\* their reversals.
PlayOrder(n, j) ==
    LET shift == (j - 1) \div 2
    IN  [i \in 1..n |->
            IF j % 2 = 1 THEN (i - 1 + shift) % n ELSE (n - i + shift) % n]

PlayOrders(n) == {PlayOrder(n, j) : j \in 1..NumOrders}

----------------------------------------------------------------------------
(* Tickets. *)

\* BingoTicket(options) after select_songs_for_ticket has reset it
BingoTicket == [card_id |-> 1, card_tracks |-> <<>>, ticket_number |-> 0]

\* an assignment that gives every song the first prime of the table
assign_song_ids_first_prime(n) == [i \in 0..(n - 1) |-> PRIME_NUMBERS[1]]

\* assign_song_ids: the song at index i gets PRIME_NUMBERS[i]
assign_song_ids(n) == [i \in 0..(n - 1) |-> PRIME_NUMBERS[i + 1]]

\* a key that adds the song ids instead of multiplying them
card_id_sum(id, song) == id + song_id[song]

\* select_songs_for_ticket, line 321: the key after one more song
card_id_with(id, song) == id * song_id[song]

\* a uniqueness test that never finds a key taken
key_never_in_use(id) == FALSE

\* select_songs_for_ticket, line 325: the key is taken already
key_in_use(id) == id \in used_card_ids

\* an acceptance test that also takes tickets winning before the target
wins_at_or_before_target(position, from_end) == position <= Len(tracks) - from_end

\* generate_at_point, line 526: the ticket wins where it was asked to
wins_at_target(position, from_end) == position = Len(tracks) - from_end

\* get_when_ticket_wins: the loop over enumerate(tracks, start=1) from position
\* count on, with the pending set card_track_ids and last_song so far
RECURSIVE scan_tracks(_, _, _, _)
scan_tracks(trk, count, card_track_ids, last_song) ==
    IF count > Len(trk)
    THEN [last_song |-> last_song, card_track_ids |-> card_track_ids]
    ELSE LET hit == trk[count] \in card_track_ids
             last == IF hit THEN count ELSE last_song
             left == IF hit THEN card_track_ids \ {trk[count]} ELSE card_track_ids
         IN  IF left = {}
             THEN [last_song |-> last, card_track_ids |-> left]
             ELSE scan_tracks(trk, count + 1, left, last)

\* a scan that reports the 0-based index of the last song instead of the
\* 1-based position
get_when_ticket_wins_zero_based(trk, ticket) ==
    LET r == scan_tracks(trk, 1, Range(ticket.card_tracks), -1)
    IN  [raised |-> r.card_track_ids # {}, value |-> r.last_song - 1]

\* a scan that returns last_song without the test for songs left over
get_when_ticket_wins_never_raises(trk, ticket) ==
    LET r == scan_tracks(trk, 1, Range(ticket.card_tracks), -1)
    IN  [raised |-> FALSE, value |-> r.last_song]

\* get_when_ticket_wins: raised is the ValueError, value the position returned
get_when_ticket_wins(trk, ticket) ==
    LET r == scan_tracks(trk, 1, Range(ticket.card_tracks), -1)
    IN  [raised |-> r.card_track_ids # {}, value |-> r.last_song]

\* generate_all_cards, lines 547-557: int() of the four products by decay_rate
floored_tiers(T) ==
    [on_last |-> (T * 13) \div 20,
     second_last |-> (T * 91) \div 400,
     third_last |-> (T * 637) \div 8000,
     fourth_last |-> (T * 4459) \div 160000]

\* a remainder that leaves the fourth tier out of the sum
amount_left_of_three_tiers(T) ==
    LET f == floored_tiers(T)
    IN  T - f.on_last - f.second_last - f.third_last

\* generate_all_cards, lines 558-561: amount_left, with num_fourth_last
\* already max(int(num_fourth_last), 1)
amount_left(T) ==
    LET f == floored_tiers(T)
    IN  T - f.on_last - f.second_last - f.third_last - Max(f.fourth_last, 1)

\* a schedule that always keeps its fourth tier
never_folds(fourth_last) == FALSE

\* generate_all_cards, line 564: if num_fourth_last in [0, 1]
folds(fourth_last) == fourth_last \in {0, 1}

\* generate_all_cards, lines 547-569: the tier counts.  T * 0.65 and the other
\* three products are floats; int() of each equals the floor of the exact
\* product (compared against Python's doubles for every T below 5000).
tier_counts(T) ==
    LET f == floored_tiers(T)
        fourth_last == Max(f.fourth_last, 1)
        fold == folds(fourth_last)
        bumped == IF fold THEN f.on_last + 1 ELSE f.on_last
    IN  [num_on_last |-> IF amount_left(T) # 4 THEN bumped - (4 - amount_left(T))
                         ELSE bumped,
         num_second_last |-> f.second_last,
         num_third_last |-> f.third_last,
         num_fourth_last |-> IF fold THEN 0 ELSE fourth_last,
         offset |-> IF fold THEN 3 ELSE 4]

\* sort_cards_by_page: the round robin over the three thirds
RECURSIVE interleave(_, _, _)
interleave(first_third, second_third, third_third) ==
    IF Len(first_third) = 0
    THEN <<>>
    ELSE <<first_third[1]>>
         \o (IF Len(second_third) > 0 THEN <<second_third[1]>> ELSE <<>>)
         \o (IF Len(third_third) > 0 THEN <<third_third[1]>> ELSE <<>>)
         \o interleave(Tail(first_third),
                       IF Len(second_third) > 0 THEN Tail(second_third) ELSE <<>>,
                       IF Len(third_third) > 0 THEN Tail(third_third) ELSE <<>>)

\* cards[a:b] of Python, 0-based and clipped to the list
Slice(s, a, b) == SubSeq(s, Min(a, Len(s)) + 1, Min(b, Len(s)))

\* a split whose first third is rounded down as the second is
sort_cards_by_page_floor_thirds(cs, number_of_cards) ==
    LET noc3f == number_of_cards \div 3
    IN  interleave(Slice(cs, 0, noc3f),
                   Slice(cs, noc3f, noc3f + noc3f),
                   Slice(cs, noc3f + noc3f, Len(cs)))

\* sort_cards_by_page, lines 610-621
sort_cards_by_page(cs, number_of_cards) ==
    LET noc3c == CeilDiv(number_of_cards, 3)
        noc3f == number_of_cards \div 3
    IN  interleave(Slice(cs, 0, noc3c),
                   Slice(cs, noc3c, noc3c + noc3f),
                   Slice(cs, noc3c + noc3f, Len(cs)))

\* a numbering that starts from 0, as enumerate(cards) would
number_tickets_from_zero(cs) ==
    [i \in 1..Len(cs) |-> [cs[i] EXCEPT !.ticket_number = i - 1]]

\* for idx, card in enumerate(cards, start=1): card.ticket_number = idx
number_tickets(cs) == [i \in 1..Len(cs) |-> [cs[i] EXCEPT !.ticket_number = i]]

----------------------------------------------------------------------------
(* The initial states. *)

\* The pools and ticket shapes explored: <<len(songs), rows, columns>>
Shapes == {<<8, 2, 1>>, <<6, 2, 2>>, <<17, 3, 5>>, <<0, 3, 5>>, <<31, 2, 1>>, <<5, 2, 1>>}

BingoOptions ==
    {[mode |-> "BINGO", game_id |-> "g", rows |-> sh[2], columns |-> sh[3],
      number_of_cards |-> t, page_order |-> p, num_songs |-> sh[1]] :
        sh \in Shapes, t \in (MIN_CARDS - 1)..MaxCards, p \in BOOLEAN}

OtherOptions ==
    {[mode |-> m[1], game_id |-> m[2], rows |-> 2, columns |-> 1,
      number_of_cards |-> MIN_CARDS, page_order |-> FALSE, num_songs |-> 8] :
        m \in {<<"QUIZ", "g">>, <<"CLIP", "g">>, <<"BINGO", "">>}}

\* combinations is not running
NoFactor == [value |-> <<>>, exact |-> TRUE, factor |-> 0, pascal |-> <<>>]

NoFrame == [amount |-> 0, from_end |-> 0, count |-> 0, cards |-> <<>>, ret |-> ""]

\* SongsPanel.__init__, lines 32-36 and 53-55: a panel just constructed.
\* sortable tells whether getattr(song, column) has a value for the column ''
\* that __init__ leaves in _sorting; Song decides it.
SongsPanel(sortable) ==
    [data |-> [r \in {} |-> 0], hidden |-> {}, num_songs |-> 0, duration |-> 0,
     tree |-> {}, detached |-> {}, footer |-> << >>, sortable |-> sortable,
     raised |-> ""]

\* nothing has run yet
InitIdle ==
    /\ index = 0
    /\ abort = FALSE
    /\ observed = FALSE
    /\ written = {}
    /\ written_late = {}
    /\ error = ""
    /\ cards = <<>>
    /\ good_cards = <<>>
    /\ gac = [num_on_last |-> 0, num_second_last |-> 0, num_third_last |-> 0,
              num_fourth_last |-> 0, offset |-> 0, tier |-> 0, idx |-> 0]
    /\ irc = [point |-> 0, num_cards |-> 0, i |-> 0, len0 |-> 0, rand_point |-> 0,
              increment |-> <<>>, start_point |-> <<>>]
    /\ picked_indices = {}
    /\ win_point = 0
    /\ drawn_from = {}
    /\ discarded = FALSE
    /\ panel = SongsPanel(TRUE)

\* generate(songs) is about to run on a GameGenerator just constructed
Init ==
    /\ \E o \in BingoOptions \cup OtherOptions :
        /\ options = [f \in {"mode", "game_id", "rows", "columns",
                             "number_of_cards", "page_order"} |-> o[f]]
        /\ num_songs = o.num_songs
    /\ song_id = [i \in 0..(num_songs - 1) |-> 0]
    /\ songs = <<>>
    /\ tracks = <<>>
    /\ used_card_ids = {}
    /\ gap = NoFrame
    /\ card = [card_id |-> 0, card_tracks |-> <<>>, ticket_number |-> 0]
    /\ rng \in 1..NumSeeds
    /\ args = <<>>
    /\ cmb = NoFactor
    /\ returned = 0
    /\ pc = "generate"
    /\ InitIdle

----------------------------------------------------------------------------
(* generate() up to generate_all_cards. *)

\* An output file is written.
Persist(output) ==
    /\ written' = written \cup {output}
    /\ written_late' = IF observed THEN written_late \cup {output} ELSE written_late

Raise(exception) ==
    /\ error' = exception
    /\ pc' = "raised"

\* generate, lines 153-162: check_options, assign_song_ids
CheckOptions ==
    /\ pc = "generate"
    /\ LET problem == check_options(options, num_songs)
       IN  IF problem # ""
           THEN Raise(problem) /\ UNCHANGED song_id
           ELSE IF num_songs > Len(PRIME_NUMBERS)
           THEN Raise("Failed to assign song IDs") /\ UNCHANGED song_id
           ELSE /\ song_id' = assign_song_ids(num_songs)
                /\ pc' = "generate_mp3"
                /\ UNCHANGED error
    /\ UNCHANGED <<options, num_songs, songs, tracks, index, abort, observed,
                   written, written_late, used_card_ids, cards, good_cards, gac,
                   irc, gap, card, picked_indices, win_point, rng>>
    /\ UNCHANGED <<drawn_from, args, cmb, returned, discarded, panel>>

\* generate_mp3, line 216: gen_track_order shuffles a copy of game_songs,
\* except in QUIZ mode
GenTrackOrder ==
    /\ pc = "generate_mp3"
    /\ songs' \in IF options.mode = "QUIZ"
                  THEN {[i \in 1..num_songs |-> i - 1]}
                  ELSE PlayOrders(num_songs)
    /\ drawn_from' = IF options.mode = "QUIZ"
                     THEN drawn_from
                     ELSE drawn_from \cup {"secrets"}
    /\ index' = 1
    /\ pc' = "append_songs"
    /\ UNCHANGED <<options, num_songs, song_id, tracks, abort, observed, written,
                   written_late, error, used_card_ids, cards, good_cards, gac,
                   irc, gap, card, picked_indices, win_point, rng>>
    /\ UNCHANGED <<args, cmb, returned, discarded, panel>>

\* append_songs, lines 259-280: one iteration of the loop over the songs
AppendSong ==
    /\ pc = "append_songs"
    /\ index <= Len(songs)
    /\ IF abort
       THEN /\ observed' = TRUE
            /\ tracks' = <<>>
            /\ pc' = "save_game_tracks_json"
            /\ UNCHANGED index
       ELSE IF options.mode = "QUIZ" /\ index > QUIZ_COUNTDOWN_POSITIONS
       THEN /\ pc' = "output_generate"
            /\ UNCHANGED <<observed, tracks, index>>
       ELSE /\ tracks' = Append(tracks, songs[index])
            /\ index' = index + 1
            /\ pc' = IF index = Len(songs) THEN "output_generate" ELSE pc
            /\ UNCHANGED observed
    /\ UNCHANGED <<options, num_songs, song_id, songs, abort, written,
                   written_late, error, used_card_ids, cards, good_cards, gac,
                   irc, gap, card, picked_indices, win_point, rng>>
    /\ UNCHANGED <<drawn_from, args, cmb, returned, discarded, panel>>

\* append_songs, lines 282-285: output.generate() writes the MP3 file
OutputGenerate ==
    /\ pc = "output_generate"
    /\ Persist("mp3")
    /\ pc' = "track_listing"
    /\ UNCHANGED <<options, num_songs, song_id, songs, tracks, index, abort,
                   observed, error, used_card_ids, cards, good_cards, gac, irc,
                   gap, card, picked_indices, win_point, rng>>
    /\ UNCHANGED <<drawn_from, args, cmb, returned, discarded, panel>>

\* append_songs, lines 286-292: the track listing, unless aborted
TrackListing ==
    /\ pc = "track_listing"
    /\ IF abort
       THEN observed' = TRUE /\ UNCHANGED <<written, written_late>>
       ELSE Persist("track_listing") /\ UNCHANGED observed
    /\ pc' = "save_game_tracks_json"
    /\ UNCHANGED <<options, num_songs, song_id, songs, tracks, index, abort,
                   error, used_card_ids, cards, good_cards, gac, irc, gap, card,
                   picked_indices, win_point, rng>>
    /\ UNCHANGED <<drawn_from, args, cmb, returned, discarded, panel>>

\* generate_mp3, line 234: save_game_tracks_json(tracks)
SaveGameTracksJson ==
    /\ pc = "save_game_tracks_json"
    /\ Persist("game_tracks_json")
    /\ pc' = "after_mp3"
    /\ UNCHANGED <<options, num_songs, song_id, songs, tracks, index, abort,
                   observed, error, used_card_ids, cards, good_cards, gac, irc,
                   gap, card, picked_indices, win_point, rng>>
    /\ UNCHANGED <<drawn_from, args, cmb, returned, discarded, panel>>

\* generate, lines 164-167: return on abort, and after the MP3 unless in BINGO mode
AfterMp3 ==
    /\ pc = "after_mp3"
    /\ IF abort
       THEN observed' = TRUE /\ pc' = "done"
       ELSE /\ pc' = IF options.mode = "BINGO" THEN "generate_all_cards" ELSE "done"
            /\ UNCHANGED observed
    /\ UNCHANGED <<options, num_songs, song_id, songs, tracks, index, abort,
                   written, written_late, error, used_card_ids, cards,
                   good_cards, gac, irc, gap, card, picked_indices, win_point, rng>>
    /\ UNCHANGED <<drawn_from, args, cmb, returned, discarded, panel>>

\* The user aborts: progress.abort is set from outside the control thread.
Abort ==
    /\ ~abort
    /\ pc \notin {"done", "raised"}
    /\ abort' = TRUE
    /\ UNCHANGED <<options, num_songs, song_id, songs, tracks, index, observed,
                   written, written_late, error, pc, used_card_ids, cards,
                   good_cards, gac, irc, gap, card, picked_indices, win_point, rng>>
    /\ UNCHANGED <<drawn_from, args, cmb, returned, discarded, panel>>

----------------------------------------------------------------------------
(* generate_at_point and select_songs_for_ticket. *)

\* what generate_mp3 leaves behind for the rest of generate()
game == <<options, num_songs, song_id, songs, tracks, index>>

\* a spread whose offset stays where it started
same_offset(offset) == offset

\* generate_all_cards, line 583: offset += 1
next_offset(offset) == offset + 1

\* self.generate_at_point(tracks, amount, from_end), to return to `ret`
GapCall(amount, from_end, ret) ==
    /\ gap' = [amount |-> amount, from_end |-> from_end, count |-> 0,
               cards |-> <<>>, ret |-> ret]
    /\ pc' = "generate_at_point"

\* generate_at_point returns `result` to its caller:
\*   "tier"    line 570, cards += ...
\*   "insert"  lines 638-641, cards.insert(rand_point, ...[0])
\*   "spread"  lines 582-583, good_cards += ...; offset += 1
\*   "caller"  a direct call
GapReturn(result) ==
    /\ gap' = [gap EXCEPT !.count = 0, !.cards = <<>>, !.ret = ""]
    /\ CASE gap.ret = "tier" ->
              /\ cards' = cards \o result
              /\ gac' = [gac EXCEPT !.tier = 1]
              /\ pc' = "tiers"
              /\ UNCHANGED <<good_cards, irc, error>>
         [] gap.ret = "insert" ->
              IF result = <<>>
              THEN Raise("IndexError") /\ UNCHANGED <<cards, good_cards, gac, irc>>
              ELSE /\ cards' = ListInsert(cards, irc.rand_point, result[1])
                   /\ irc' = [irc EXCEPT !.i = @ + 1,
                                         !.start_point = fl_add(@, irc.increment)]
                   /\ pc' = "insert_random_cards"
                   /\ UNCHANGED <<good_cards, gac, error>>
         [] gap.ret = "spread" ->
              /\ good_cards' = good_cards \o result
              /\ gac' = [gac EXCEPT !.offset = next_offset(@), !.idx = @ + 1]
              /\ pc' = "spread"
              /\ UNCHANGED <<cards, irc, error>>
         [] OTHER ->
              /\ cards' = result
              /\ pc' = "done"
              /\ UNCHANGED <<good_cards, gac, irc, error>>

\* generate_at_point, lines 519-522: the loop test, and a new ticket handed
\* to select_songs_for_ticket (lines 310-313)
GenerateAtPoint ==
    /\ pc = "generate_at_point"
    /\ IF gap.count < gap.amount
       THEN /\ card' = BingoTicket
            /\ picked_indices' = {}
            /\ discarded' = FALSE
            /\ pc' = "select_songs_for_ticket"
            /\ UNCHANGED <<cards, good_cards, gac, irc, gap, error>>
       ELSE /\ GapReturn(gap.cards)
            /\ UNCHANGED <<card, picked_indices, discarded>>
    /\ win_point' = 0
    /\ UNCHANGED <<game, abort, observed, written, written_late, used_card_ids, rng>>
    /\ UNCHANGED <<drawn_from, args, cmb, returned, panel>>

\* a discard that empties the ticket but leaves the factors in its key
discarded_draw_keeps_key(c) == [c EXCEPT !.card_tracks = <<>>]

\* select_songs_for_ticket, lines 328-329: the ticket after its draw has been
\* thrown away
discarded_draw(c) == [c EXCEPT !.card_tracks = <<>>, !.card_id = 1]

\* select_songs_for_ticket, lines 318-331: the draw d of an index
TakeIndex(d) ==
    /\ rng' = d.rng
    /\ drawn_from' = drawn_from \cup {"secrets"}
    /\ IF d.value \in picked_indices
       THEN /\ pc' = "draw_index"
            /\ UNCHANGED <<card, picked_indices, used_card_ids, discarded>>
       ELSE LET song == tracks[d.value + 1]
                card_tracks == Append(card.card_tracks, song)
                card_id == card_id_with(card.card_id, song)
            IN  IF Len(card_tracks) # songs_per_ticket(options)
                THEN /\ card' = [card EXCEPT !.card_tracks = card_tracks,
                                             !.card_id = card_id]
                     /\ picked_indices' = picked_indices \cup {d.value}
                     /\ pc' = "select_songs_for_ticket"
                     /\ UNCHANGED <<used_card_ids, discarded>>
                ELSE IF key_in_use(card_id)
                THEN /\ card' = discarded_draw(card)
                     /\ picked_indices' = {}
                     /\ discarded' = TRUE
                     /\ pc' = "select_songs_for_ticket"
                     /\ UNCHANGED used_card_ids
                ELSE /\ card' = [card EXCEPT !.card_tracks = card_tracks,
                                             !.card_id = card_id]
                     /\ picked_indices' = {}
                     /\ used_card_ids' = used_card_ids \cup {card_id}
                     /\ pc' = "ticket_selected"
                     /\ UNCHANGED discarded

\* select_songs_for_ticket, line 314: the test of the outer loop, then the
\* first draw of an index
SelectSongsForTicket ==
    /\ pc = "select_songs_for_ticket"
    /\ IF abort
       THEN /\ observed' = TRUE
            /\ pc' = "ticket_selected"
            /\ UNCHANGED <<card, picked_indices, used_card_ids, rng, drawn_from,
                           discarded>>
       ELSE /\ \E d \in Draw(Len(tracks)) : TakeIndex(d)
            /\ UNCHANGED observed
    /\ UNCHANGED <<game, abort, written, written_late, error, cards, good_cards,
                   gac, irc, gap, win_point>>
    /\ UNCHANGED <<args, cmb, returned, panel>>

\* select_songs_for_ticket, lines 317-319: the index drawn was picked before,
\* so another one is drawn
DrawIndex ==
    /\ pc = "draw_index"
    /\ \E d \in Draw(Len(tracks)) : TakeIndex(d)
    /\ UNCHANGED <<game, abort, observed, written, written_late, error, cards,
                   good_cards, gac, irc, gap, win_point>>
    /\ UNCHANGED <<args, cmb, returned, panel>>

\* a rejection that leaves the key of the ticket in use
keeps_rejected(ids, c) == ids

\* generate_at_point, line 527: self.used_card_ids.remove(card.card_id)
without_rejected(ids, c) == ids \ {c.card_id}

\* generate_at_point, lines 523-530: the ticket is back from
\* select_songs_for_ticket
TicketSelected ==
    /\ pc = "ticket_selected"
    /\ IF abort
       THEN /\ observed' = TRUE
            /\ GapReturn(gap.cards)
            /\ UNCHANGED <<used_card_ids, win_point>>
       ELSE LET won == get_when_ticket_wins(tracks, card)
            IN  /\ UNCHANGED observed
                /\ IF won.raised
                   THEN /\ Raise("ValueError")
                        /\ UNCHANGED <<used_card_ids, win_point, cards,
                                       good_cards, gac, irc, gap>>
                   ELSE IF ~wins_at_target(won.value, gap.from_end)
                   THEN IF card.card_id \notin used_card_ids
                        THEN /\ Raise("KeyError")
                             /\ win_point' = won.value
                             /\ UNCHANGED <<used_card_ids, cards, good_cards,
                                            gac, irc, gap>>
                        ELSE /\ used_card_ids' = without_rejected(used_card_ids, card)
                             /\ win_point' = won.value
                             /\ pc' = "generate_at_point"
                             /\ UNCHANGED <<cards, good_cards, gac, irc, gap, error>>
                   ELSE /\ gap' = [gap EXCEPT !.cards = Append(@, card),
                                              !.count = @ + 1]
                        /\ win_point' = won.value
                        /\ pc' = "generate_at_point"
                        /\ UNCHANGED <<used_card_ids, cards, good_cards, gac,
                                       irc, error>>
    /\ UNCHANGED <<game, abort, written, written_late, card, picked_indices, rng>>
    /\ UNCHANGED <<drawn_from, args, cmb, returned, discarded, panel>>

----------------------------------------------------------------------------
(* generate_all_cards and insert_random_cards. *)

\* generate_all_cards returns `result` to generate(), line 168
GacReturn(result) ==
    /\ cards' = result
    /\ pc' = "tickets_pdf"

\* generate_all_cards, lines 543-570: the tier counts, and the tier that wins
\* on the last song
GenerateAllCards ==
    /\ pc = "generate_all_cards"
    /\ used_card_ids' = {}
    /\ cards' = <<>>
    /\ good_cards' = <<>>
    /\ LET t == tier_counts(options.number_of_cards)
       IN  /\ gac' = [num_on_last |-> t.num_on_last,
                      num_second_last |-> t.num_second_last,
                      num_third_last |-> t.num_third_last,
                      num_fourth_last |-> t.num_fourth_last,
                      offset |-> t.offset, tier |-> 0, idx |-> 0]
           /\ GapCall(t.num_on_last, 0, "tier")
    /\ UNCHANGED <<game, abort, observed, written, written_late, error, irc,
                   card, picked_indices, win_point, rng>>
    /\ UNCHANGED <<drawn_from, args, cmb, returned, discarded, panel>>

\* the size of the tier that wins `point` songs from the end
tier_size(point) ==
    CASE point = 1 -> gac.num_second_last
      [] point = 2 -> gac.num_third_last
      [] point = 3 -> gac.num_fourth_last
      [] OTHER -> 0

\* generate_all_cards, lines 571-577: the next tier that is not empty goes to
\* insert_random_cards (line 629 sets its increment from len(cards)); after
\* the fourth-last tier the four spread tickets follow
NextTier ==
    /\ pc = "tiers"
    /\ IF gac.tier > 3
       THEN /\ pc' = "spread"
            /\ UNCHANGED <<gac, irc>>
       ELSE IF tier_size(gac.tier) = 0
       THEN /\ gac' = [gac EXCEPT !.tier = @ + 1]
            /\ UNCHANGED <<pc, irc>>
       ELSE /\ irc' = [point |-> gac.tier, num_cards |-> tier_size(gac.tier),
                       i |-> 0, len0 |-> Len(cards), rand_point |-> 0,
                       increment |-> fl_div(Len(cards) + tier_size(gac.tier),
                                            tier_size(gac.tier)),
                       start_point |-> <<>>]
            /\ pc' = "insert_random_cards"
            /\ UNCHANGED gac
    /\ UNCHANGED <<game, abort, observed, written, written_late, error,
                   used_card_ids, cards, good_cards, gap, card, picked_indices,
                   win_point, rng>>
    /\ UNCHANGED <<drawn_from, args, cmb, returned, discarded, panel>>

\* insert_random_cards, lines 632-634: the window of the next ticket, from the
\* float start_point that line 641 sums up and the float increment of line 629
window_at(start_point, increment) ==
    [start |-> fl_ceil(start_point),
     end |-> fl_ceil(fl_add(start_point, increment))]

\* generate_all_cards, lines 585 and 596: start_point after i spread tickets
RECURSIVE start_point_after(_, _)
start_point_after(i, increment) ==
    IF i = 0 THEN <<>> ELSE fl_add(start_point_after(i - 1, increment), increment)

\* generate_all_cards, lines 584-592: the window of the i-th of the k spread
\* tickets, with increment = total / float(k)
window(i, total, k) ==
    window_at(start_point_after(i, fl_div(total, k)), fl_div(total, k))

\* insert_random_cards, lines 636-637
clamp_to_tier(rand_point, num_cards) ==
    IF rand_point >= gac.num_on_last + num_cards
    THEN gac.num_on_last + num_cards - 1
    ELSE rand_point

\* insert_random_cards, lines 631-640: the position of the next ticket is
\* drawn, then generate_at_point makes the ticket
InsertRandomCards ==
    /\ pc = "insert_random_cards"
    /\ IF irc.i >= irc.num_cards
       THEN /\ gac' = [gac EXCEPT !.tier = @ + 1]
            /\ pc' = "tiers"
            /\ UNCHANGED <<irc, gap, rng, drawn_from, error>>
       ELSE LET w == window_at(irc.start_point, irc.increment)
            IN  IF w.end <= w.start
                THEN Raise("ValueError") /\ UNCHANGED <<irc, gap, rng, drawn_from, gac>>
                ELSE /\ \E d \in randrange(w.start, w.end) :
                          /\ irc' = [irc EXCEPT !.rand_point =
                                        clamp_to_tier(d.value, irc.num_cards)]
                          /\ rng' = d.rng
                     /\ drawn_from' = drawn_from \cup {"secrets"}
                     /\ GapCall(1, irc.point, "insert")
                     /\ UNCHANGED <<gac, error>>
    /\ UNCHANGED <<game, abort, observed, written, written_late, used_card_ids,
                   cards, good_cards, card, picked_indices, win_point>>
    /\ UNCHANGED <<args, cmb, returned, discarded, panel>>

\* generate_all_cards, lines 578-583: one of the four spread tickets
Spread ==
    /\ pc = "spread"
    /\ gac.idx < 4
    /\ IF abort
       THEN /\ observed' = TRUE
            /\ GacReturn(cards)
            /\ UNCHANGED gap
       ELSE /\ GapCall(1, gac.offset, "spread")
            /\ UNCHANGED <<observed, cards>>
    /\ UNCHANGED <<game, abort, written, written_late, error, used_card_ids,
                   good_cards, gac, irc, card, picked_indices, win_point, rng>>
    /\ UNCHANGED <<drawn_from, args, cmb, returned, discarded, panel>>

\* generate_all_cards, lines 584-586: random.shuffle(good_cards); idx now
\* counts the spread tickets placed
Shuffle ==
    /\ pc = "spread"
    /\ gac.idx >= 4
    /\ \E d \in shuffle(good_cards) :
          /\ good_cards' = d.value
          /\ rng' = d.rng
    /\ drawn_from' = drawn_from \cup {"random"}
    /\ gac' = [gac EXCEPT !.idx = 0]
    /\ pc' = "place_spread"
    /\ UNCHANGED <<game, abort, observed, written, written_late, error,
                   used_card_ids, cards, irc, gap, card, picked_indices, win_point>>
    /\ UNCHANGED <<args, cmb, returned, discarded, panel>>

\* generate_all_cards, lines 587-596: one spread ticket is placed; start_point
\* is idx * number_of_cards / 4
PlaceSpread ==
    /\ pc = "place_spread"
    /\ gac.idx < Len(good_cards)
    /\ IF abort
       THEN /\ observed' = TRUE
            /\ GacReturn(cards)
            /\ UNCHANGED <<gac, rng, drawn_from, error>>
       ELSE LET w == window(gac.idx, options.number_of_cards, 4)
            IN  IF w.end <= w.start
                THEN Raise("ValueError") /\ UNCHANGED <<cards, gac, rng, drawn_from, observed>>
                ELSE /\ \E d \in randrange(w.start, w.end) :
                          /\ cards' = ListInsert(
                                cards, Min(d.value, options.number_of_cards - 1),
                                good_cards[gac.idx + 1])
                          /\ rng' = d.rng
                     /\ drawn_from' = drawn_from \cup {"secrets"}
                     /\ gac' = [gac EXCEPT !.idx = @ + 1]
                     /\ UNCHANGED <<pc, observed, error>>
    /\ UNCHANGED <<game, abort, written, written_late, used_card_ids,
                   good_cards, irc, gap, card, picked_indices, win_point>>
    /\ UNCHANGED <<args, cmb, returned, discarded, panel>>

\* generate_all_cards, lines 597-601: the ticket numbers, and the page order
NumberTickets ==
    /\ pc = "place_spread"
    /\ gac.idx >= Len(good_cards)
    /\ LET numbered == number_tickets(cards)
       IN  GacReturn(IF options.page_order
                     THEN sort_cards_by_page(numbered, options.number_of_cards)
                     ELSE numbered)
    /\ UNCHANGED <<game, abort, observed, written, written_late, error,
                   used_card_ids, good_cards, gac, irc, gap, card,
                   picked_indices, win_point, rng>>
    /\ UNCHANGED <<drawn_from, args, cmb, returned, discarded, panel>>

----------------------------------------------------------------------------
(* generate() after generate_all_cards. *)

\* generate, lines 169-172: generate_tickets_pdf, unless aborted
TicketsPdf ==
    /\ pc = "tickets_pdf"
    /\ IF abort
       THEN observed' = TRUE /\ pc' = "done" /\ UNCHANGED <<written, written_late>>
       ELSE Persist("tickets_pdf") /\ pc' = "ticket_tracks_file" /\ UNCHANGED observed
    /\ UNCHANGED <<game, abort, error, used_card_ids, cards, good_cards, gac,
                   irc, gap, card, picked_indices, win_point, rng>>
    /\ UNCHANGED <<drawn_from, args, cmb, returned, discarded, panel>>

\* generate, lines 173-175: generate_ticket_tracks_file, unless aborted
TicketTracksFile ==
    /\ pc = "ticket_tracks_file"
    /\ IF abort
       THEN observed' = TRUE /\ pc' = "done" /\ UNCHANGED <<written, written_late>>
       ELSE Persist("ticket_checker") /\ pc' = "card_results" /\ UNCHANGED observed
    /\ UNCHANGED <<game, abort, error, used_card_ids, cards, good_cards, gac,
                   irc, gap, card, picked_indices, win_point, rng>>
    /\ UNCHANGED <<drawn_from, args, cmb, returned, discarded, panel>>

\* generate, lines 176-178: generate_card_results, unless aborted; it asks
\* get_when_ticket_wins for every card (line 483)
CardResults ==
    /\ pc = "card_results"
    /\ IF abort
       THEN observed' = TRUE /\ pc' = "done" /\ UNCHANGED <<written, written_late, error>>
       ELSE IF \E i \in 1..Len(cards) : get_when_ticket_wins(tracks, cards[i]).raised
       THEN Raise("ValueError") /\ UNCHANGED <<observed, written, written_late>>
       ELSE Persist("results_pdf") /\ pc' = "done" /\ UNCHANGED <<observed, error>>
    /\ UNCHANGED <<game, abort, used_card_ids, cards, good_cards, gac, irc, gap,
                   card, picked_indices, win_point, rng>>
    /\ UNCHANGED <<drawn_from, args, cmb, returned, discarded, panel>>

----------------------------------------------------------------------------
(* The specification of generate(). *)

Next ==
    \/ CheckOptions
    \/ GenTrackOrder
    \/ AppendSong
    \/ OutputGenerate
    \/ TrackListing
    \/ SaveGameTracksJson
    \/ AfterMp3
    \/ GenerateAllCards
    \/ GenerateAtPoint
    \/ SelectSongsForTicket
    \/ DrawIndex
    \/ TicketSelected
    \/ NextTier
    \/ InsertRandomCards
    \/ Spread
    \/ Shuffle
    \/ PlaceSpread
    \/ NumberTickets
    \/ TicketsPdf
    \/ TicketTracksFile
    \/ CardResults
    \/ Abort

Spec == Init /\ [][Next]_vars

----------------------------------------------------------------------------
(* generate_at_point and get_when_ticket_wins called on their own, with a   *)
(* free entropy source.                                                     *)

\* songs in the pool of a direct call
MaxPool == 4
\* tickets asked of one direct call of generate_at_point
MaxAmount == 2
\* the furthest win position from the end asked of a direct call
MaxFromEnd == 2

\* every sequence without repeats over the set S
InjectiveSeqs(S) ==
    UNION {{f \in [1..k -> S] : \A i, j \in 1..k : f[i] = f[j] => i = j} :
              k \in 0..Cardinality(S)}

\* tickets of two songs
DirectOptions ==
    [mode |-> "BINGO", game_id |-> "g", rows |-> 2, columns |-> 1,
     number_of_cards |-> MIN_CARDS, page_order |-> FALSE]

\* generate_at_point(tracks, amount, from_end) is about to run on a play order
\* of a pool with its song ids assigned; no key is in use from earlier calls,
\* or the key of the ticket of the last two songs played
InitAtPoint ==
    /\ options = DirectOptions
    /\ num_songs = MaxPool
    /\ song_id = assign_song_ids(num_songs)
    /\ songs \in PlayOrders(num_songs)
    /\ tracks = songs
    /\ used_card_ids \in
          {{}, {song_id[tracks[num_songs]] * song_id[tracks[num_songs - 1]]}}
    /\ \E amount \in 0..MaxAmount, from_end \in 0..MaxFromEnd :
          gap = [amount |-> amount, from_end |-> from_end, count |-> 0,
                 cards |-> <<>>, ret |-> "caller"]
    /\ card = [card_id |-> 0, card_tracks |-> <<>>, ticket_number |-> 0]
    /\ rng = 0
    /\ args = <<>>
    /\ cmb = NoFactor
    /\ returned = 0
    /\ pc = "generate_at_point"
    /\ InitIdle

NextAtPoint ==
    \/ GenerateAtPoint
    \/ SelectSongsForTicket
    \/ DrawIndex
    \/ TicketSelected
    \/ Abort

SpecAtPoint == InitAtPoint /\ [][NextAtPoint]_vars

\* get_when_ticket_wins(tracks, ticket) is about to run on any play order and
\* any ticket over the refs 0..MaxPool-1
InitWins ==
    /\ options = DirectOptions
    /\ num_songs = MaxPool
    /\ song_id = assign_song_ids(num_songs)
    /\ songs = <<>>
    /\ tracks \in InjectiveSeqs(0..(MaxPool - 1))
    /\ used_card_ids = {}
    /\ gap = NoFrame
    /\ \E card_tracks \in InjectiveSeqs(0..(MaxPool - 1)) :
          card = [card_id |-> 1, card_tracks |-> card_tracks, ticket_number |-> 0]
    /\ rng = 0
    /\ args = <<>>
    /\ cmb = NoFactor
    /\ returned = 0
    /\ pc = "get_when_ticket_wins"
    /\ InitIdle

\* a call of get_when_ticket_wins(tracks, card), the first or a repeated one
GetWhenTicketWins ==
    /\ pc \in {"get_when_ticket_wins", "won"}
    /\ LET won == get_when_ticket_wins(tracks, card)
       IN  IF won.raised
           THEN Raise("ValueError") /\ UNCHANGED win_point
           ELSE win_point' = won.value /\ pc' = "won" /\ UNCHANGED error
    /\ UNCHANGED <<game, abort, observed, written, written_late, used_card_ids,
                   cards, good_cards, gac, irc, gap, card, picked_indices, rng>>
    /\ UNCHANGED <<drawn_from, args, cmb, returned, discarded, panel>>

SpecWins == InitWins /\ [][GetWhenTicketWins]_vars

----------------------------------------------------------------------------
(* check_options (and assign_song_ids after it) on a range of ticket shapes *)
(* and pool sizes.                                                          *)

\* rows of a ticket
MaxRows == 3
\* columns of a ticket
MaxColumns == 2
\* songs in the pool
MaxSongsChecked == 11

\* generate(songs) is about to run in BINGO mode
InitCheck ==
    /\ \E rows \in 1..MaxRows, columns \in 1..MaxColumns,
          t \in (MIN_CARDS - 1)..MIN_CARDS :
          options = [mode |-> "BINGO", game_id |-> "g", rows |-> rows,
                     columns |-> columns, number_of_cards |-> t,
                     page_order |-> FALSE]
    /\ num_songs \in 0..MaxSongsChecked
    /\ song_id = [i \in 0..(num_songs - 1) |-> 0]
    /\ songs = <<>>
    /\ tracks = <<>>
    /\ used_card_ids = {}
    /\ gap = NoFrame
    /\ card = [card_id |-> 0, card_tracks |-> <<>>, ticket_number |-> 0]
    /\ rng = 0
    /\ args = <<>>
    /\ cmb = NoFactor
    /\ returned = 0
    /\ pc = "generate"
    /\ InitIdle

SpecCheck == InitCheck /\ [][CheckOptions]_vars

----------------------------------------------------------------------------
(* combinations(total, select) called on its own, on Python ints as        *)
(* sequences of digits.  The division of two ints is Python's true          *)
(* division: the double nearest to the quotient.                            *)

\* the largest total of a call
MaxTotal == 57

\* a + b for numbers of three digits <<low, middle, high>> in base LimbBase
AddThree(a, b) ==
    LET low == a[1] + b[1]
        middle == a[2] + b[2] + low \div LimbBase
    IN  <<low % LimbBase, middle % LimbBase, a[3] + b[3] + middle \div LimbBase>>

\* The row of Pascal's triangle below `row`: C(n + 1, 0), ..., C(n + 1, n + 1)
\* from C(n, 0), ..., C(n, n), each a number of three digits.  The rows are
\* no part of the program: they are kept beside the factorial so that what
\* combinations returns can be compared with the binomial coefficient.
NextRow(row) ==
    [i \in 1..(Len(row) + 1) |->
        IF i = 1 \/ i = Len(row) + 1 THEN <<1, 0, 0>>
        ELSE AddThree(row[i - 1], row[i])]

\* combinations(total, select) is about to be called
InitCombinations ==
    /\ options = DirectOptions
    /\ num_songs = 0
    /\ song_id = <<>>
    /\ songs = <<>>
    /\ tracks = <<>>
    /\ used_card_ids = {}
    /\ gap = NoFrame
    /\ card = [card_id |-> 0, card_tracks |-> <<>>, ticket_number |-> 0]
    /\ rng = 0
    /\ args \in (0..MaxTotal) \X (0..MaxTotal)
    /\ cmb = NoFactor
    /\ returned = <<>>
    /\ pc = "combinations"
    /\ InitIdle

\* what a step of combinations leaves alone
outside_combinations ==
    <<game, abort, observed, written, written_late, error, used_card_ids,
      cards, good_cards, gac, irc, gap, card, picked_indices, win_point, rng,
      drawn_from, args, discarded, panel>>

\* combinations, lines 752-754: 0 when select > total, else
\* math.factorial(total) is started
Combinations ==
    /\ pc = "combinations"
    /\ IF args[2] > args[1]
       THEN returned' = <<>> /\ pc' = "done" /\ UNCHANGED cmb
       ELSE /\ cmb' = [value |-> <<1>>, exact |-> TRUE, factor |-> 2,
                       pascal |-> IF args[1] = 0 THEN << <<1, 0, 0>> >>
                                  ELSE << <<1, 0, 0>>, <<1, 0, 0>> >>]
            /\ pc' = "factorial"
            /\ UNCHANGED returned
    /\ UNCHANGED outside_combinations

\* math.factorial(total): the product 2 * 3 * ... * total
Factorial ==
    /\ pc = "factorial"
    /\ IF cmb.factor <= args[1]
       THEN /\ cmb' = [cmb EXCEPT !.value = TimesPlus(@, cmb.factor, 0),
                                  !.factor = @ + 1,
                                  !.pascal = NextRow(@)]
            /\ UNCHANGED pc
       ELSE /\ cmb' = [cmb EXCEPT !.factor = 2]
            /\ pc' = "over_select"
    /\ UNCHANGED <<outside_combinations, returned>>

\* One factor f of a factorial of the divisor is divided out: the quotient by
\* factorial(select) * factorial(total - select) is the quotient by their
\* factors one after the other, and it is a whole number when no division
\* leaves a remainder.
DivideOut(f) ==
    LET d == DivMod(cmb.value, f)
    IN  [cmb EXCEPT !.value = Trim(d.q), !.exact = @ /\ d.r = 0, !.factor = f + 1]

\* the factors 2 .. select of math.factorial(select)
OverSelect ==
    /\ pc = "over_select"
    /\ IF cmb.factor <= args[2]
       THEN cmb' = DivideOut(cmb.factor) /\ UNCHANGED pc
       ELSE cmb' = [cmb EXCEPT !.factor = 2] /\ pc' = "over_rest"
    /\ UNCHANGED <<outside_combinations, returned>>

\* the factors 2 .. total - select of math.factorial(total - select); then
\* int() of the double that the division gives
OverRest ==
    /\ pc = "over_rest"
    /\ IF cmb.factor <= args[1] - args[2]
       THEN cmb' = DivideOut(cmb.factor) /\ UNCHANGED <<pc, returned>>
       ELSE /\ returned' = to_double(cmb.value, 0, FALSE, FALSE)
            /\ pc' = "done"
            /\ UNCHANGED cmb
    /\ UNCHANGED outside_combinations

NextCombinations ==
    \/ Combinations
    \/ Factorial
    \/ OverSelect
    \/ OverRest

SpecCombinations == InitCombinations /\ [][NextCombinations]_vars

-----------------------------------------------------------------------------
(* assign_song_ids(songs) called on its own, on lists longer than the table *)
(* of primes too.                                                           *)

\* the longest list of songs of a call
MaxSongsAssigned == 32

\* The song_id fields the songs of a list of n songs arrive with: none
\* assigned yet, the same one everywhere, or the ids of another table.
PriorSongIds(n) ==
    {[i \in 0..(n - 1) |-> 0],
     [i \in 0..(n - 1) |-> 4],
     [i \in 0..(n - 1) |-> 1000 + i]}

\* assign_song_ids(songs) is about to be called; args holds the song_id
\* fields as they are at the call
InitAssignSongIds ==
    /\ options = DirectOptions
    /\ num_songs \in 0..MaxSongsAssigned
    /\ song_id \in PriorSongIds(num_songs)
    /\ songs = <<>>
    /\ tracks = <<>>
    /\ used_card_ids = {}
    /\ gap = NoFrame
    /\ card = [card_id |-> 0, card_tracks |-> <<>>, ticket_number |-> 0]
    /\ rng = 0
    /\ args = <<song_id>>
    /\ cmb = NoFactor
    /\ returned = FALSE
    /\ pc = "assign_song_ids"
    /\ InitIdle

\* assign_song_ids, lines 300-305: False, and nothing assigned, for more
\* songs than primes; else the primes in the order of the table, and True
AssignSongIds ==
    /\ pc = "assign_song_ids"
    /\ IF num_songs > Len(PRIME_NUMBERS)
       THEN returned' = FALSE /\ UNCHANGED song_id
       ELSE song_id' = assign_song_ids(num_songs) /\ returned' = TRUE
    /\ pc' = "done"
    /\ UNCHANGED <<options, num_songs, songs, tracks, index, abort, observed,
                   written, written_late, error, used_card_ids, cards,
                   good_cards, gac, irc, gap, card, picked_indices, win_point,
                   rng, drawn_from, args, cmb, discarded, panel>>

SpecAssignSongIds == InitAssignSongIds /\ [][AssignSongIds]_vars

-----------------------------------------------------------------------------
(* sort_cards_by_page(cards) called on its own, on the numbered tickets of  *)
(* a game of any size, and the pages generate_tickets_pdf puts them on.     *)

\* the largest number of tickets sorted
MaxSorted == 30

\* the most rows of a ticket printed
MaxRowsPrinted == 4

\* generate_tickets_pdf, lines 651-655
cards_per_page(rows) == IF rows = 2 THEN 4 ELSE IF rows > 3 THEN 2 ELSE 3

\* generate_tickets_pdf, lines 651-689: the page (from 1) each card of the
\* list is printed on; `page` goes up after every cards_per_page-th card
pages_printed(cs, rows) ==
    [count \in 1..Len(cs) |-> 1 + (count - 1) \div cards_per_page(rows)]

\* the tickets of a game of t cards as generate_all_cards numbers them
\* (lines 597-598), each with a key of its own
NumberedTickets(t) ==
    [i \in 1..t |-> [card_id |-> 1000 + i, card_tracks |-> <<>>, ticket_number |-> i]]

\* sort_cards_by_page(cards) is about to be called on the numbered tickets of
\* a game of options.number_of_cards tickets; args holds the list
InitSortCardsByPage ==
    /\ \E t \in 0..MaxSorted, r \in 2..MaxRowsPrinted :
        options = [DirectOptions EXCEPT !.rows = r, !.number_of_cards = t,
                                        !.page_order = TRUE]
    /\ num_songs = 0
    /\ song_id = <<>>
    /\ songs = <<>>
    /\ tracks = <<>>
    /\ used_card_ids = {}
    /\ gap = NoFrame
    /\ card = [card_id |-> 0, card_tracks |-> <<>>, ticket_number |-> 0]
    /\ rng = 0
    /\ args = <<NumberedTickets(options.number_of_cards)>>
    /\ cmb = NoFactor
    /\ returned = <<>>
    /\ pc = "sort_cards_by_page"
    /\ InitIdle

\* sort_cards_by_page, lines 610-622
SortCardsByPage ==
    /\ pc = "sort_cards_by_page"
    /\ returned' = sort_cards_by_page(args[1], options.number_of_cards)
    /\ pc' = "done"
    /\ UNCHANGED <<game, abort, observed, written, written_late, error,
                   used_card_ids, cards, good_cards, gac, irc, gap, card,
                   picked_indices, win_point, rng, drawn_from, args, cmb, discarded, panel>>

SpecSortCardsByPage == InitSortCardsByPage /\ [][SortCardsByPage]_vars

-----------------------------------------------------------------------------
(* generate_all_cards(tracks) called on its own and left to run without an  *)
(* abort, for the smallest game and for one large enough to have four tiers *)
(* (num_fourth_last >= 2), with tickets of 2 x 2 songs.                     *)

\* the tickets of the large game
ScheduleCards == 72

\* the songs of the pool
SchedulePool == 13

\* generate_all_cards(tracks) is about to run on a play order of a pool with
\* its song ids assigned
InitSchedule ==
    /\ \E t \in {MIN_CARDS, ScheduleCards}, p \in BOOLEAN :
        options = [DirectOptions EXCEPT !.rows = 2, !.columns = 2,
                                        !.number_of_cards = t, !.page_order = p]
    /\ num_songs = SchedulePool
    /\ song_id = assign_song_ids(num_songs)
    /\ songs \in PlayOrders(num_songs)
    /\ tracks = songs
    /\ used_card_ids = {}
    /\ gap = NoFrame
    /\ card = [card_id |-> 0, card_tracks |-> <<>>, ticket_number |-> 0]
    /\ rng \in 1..NumSeeds
    /\ args = <<>>
    /\ cmb = NoFactor
    /\ returned = 0
    /\ pc = "generate_all_cards"
    /\ InitIdle

NextSchedule ==
    \/ GenerateAllCards
    \/ GenerateAtPoint
    \/ SelectSongsForTicket
    \/ DrawIndex
    \/ TicketSelected
    \/ NextTier
    \/ InsertRandomCards
    \/ Spread
    \/ Shuffle
    \/ PlaceSpread
    \/ NumberTickets

SpecSchedule == InitSchedule /\ [][NextSchedule]_vars

-----------------------------------------------------------------------------
(* generate_all_cards on a game large enough for the float sums of          *)
(* insert_random_cards to leave the multiples of the increment.             *)

\* the number of tickets of the game
WindowCards == 81

\* generate_all_cards(tracks) is about to run for WindowCards tickets
InitWindows ==
    /\ options = [DirectOptions EXCEPT !.rows = 2, !.columns = 2,
                                       !.number_of_cards = WindowCards]
    /\ num_songs = SchedulePool
    /\ song_id = assign_song_ids(num_songs)
    /\ songs \in PlayOrders(num_songs)
    /\ tracks = songs
    /\ used_card_ids = {}
    /\ gap = NoFrame
    /\ card = [card_id |-> 0, card_tracks |-> <<>>, ticket_number |-> 0]
    /\ rng \in 1..NumSeeds
    /\ args = <<>>
    /\ cmb = NoFactor
    /\ returned = 0
    /\ pc = "generate_all_cards"
    /\ InitIdle

SpecWindows == InitWindows /\ [][NextSchedule]_vars

-----------------------------------------------------------------------------
(* The first step of generate_all_cards, which computes the tier counts, on *)
(* every ticket count from MIN_CARDS up to MaxTiered.                       *)

\* the largest ticket count whose tiers are computed
MaxTiered == 140

\* generate_all_cards(tracks) is about to run for a game of any accepted size
InitTiers ==
    /\ \E t \in MIN_CARDS..MaxTiered :
        options = [DirectOptions EXCEPT !.number_of_cards = t]
    /\ num_songs = MaxPool
    /\ song_id = assign_song_ids(num_songs)
    /\ songs = PlayOrder(num_songs, 1)
    /\ tracks = songs
    /\ used_card_ids = {}
    /\ gap = NoFrame
    /\ card = [card_id |-> 0, card_tracks |-> <<>>, ticket_number |-> 0]
    /\ rng = 1
    /\ args = <<>>
    /\ cmb = NoFactor
    /\ returned = 0
    /\ pc = "generate_all_cards"
    /\ InitIdle

SpecTiers == InitTiers /\ [][GenerateAllCards]_vars

-----------------------------------------------------------------------------
(* SongsPanel (musicbingo/gui/songspanel.py).  A song is the record         *)
(* [ref_id, duration]; the panel holds songs only, none of them inside a    *)
(* directory of the panel, so that every item of tree is a child of ''.     *)
(* tree is the set of the items attached to '', detached the set of the     *)
(* items that exist without being attached; the order of the items is left  *)
(* out.  A call of Treeview raises TclError when it names an item that does *)
(* not exist, and insert when the item exists already.                      *)

\* the ref_ids of the songs handed to the panel: 1 .. MaxShown
MaxShown == 2

\* calls are made while _num_songs is at least -MaxOverdrawn
MaxOverdrawn == 2

\* the songs handed to the panel
ShownSongs == {[ref_id |-> r, duration |-> 60 * r] : r \in 1..MaxShown}

\* what the calls of the panel leave alone
generator ==
    <<options, num_songs, song_id, songs, tracks, index, abort, observed, written,
      written_late, error, pc, used_card_ids, cards, good_cards, gac, irc,
      gap, card, picked_indices, win_point, rng, drawn_from, args,
      cmb, returned, discarded>>

\* self._data[ref_id] = song
with_key(data, song) ==
    [r \in DOMAIN data \cup {song.ref_id} |->
        IF r = song.ref_id THEN song ELSE data[r]]

\* del self._data[ref_id]
without_key(data, ref_id) == [r \in DOMAIN data \ {ref_id} |-> data[r]]

\* _update_footer, lines 208-217: the count and the duration the footer shows
update_footer(p, update) ==
    IF update THEN [p EXCEPT !.footer = <<p.num_songs, p.duration>>] ELSE p

\* add_song, lines 94-101
add_song(p, song) ==
    LET held == [p EXCEPT !.data = with_key(@, song), !.raised = ""]
    IN  IF song.ref_id \in p.tree \cup p.detached
        THEN [held EXCEPT !.raised = "TclError"]
        ELSE update_footer([held EXCEPT !.tree = @ \cup {song.ref_id},
                                        !.duration = @ + song.duration,
                                        !.num_songs = @ + 1], TRUE)

\* clear, lines 103-110: the children of '' are deleted; _hidden, the
\* detached items and the footer stay
clear(p) ==
    [p EXCEPT !.tree = {}, !.duration = 0, !.num_songs = 0,
              !.data = [r \in {} |-> 0], !.raised = ""]

\* hide_song, lines 112-123
hide_song(p, song, update) ==
    IF song.ref_id \notin DOMAIN p.data
    THEN [p EXCEPT !.raised = "KeyError"]
    ELSE LET noted == [p EXCEPT !.hidden = @ \cup {song.ref_id}, !.raised = ""]
         IN  IF song.ref_id \notin p.tree \cup p.detached
             THEN [noted EXCEPT !.raised = "TclError"]
             ELSE update_footer([noted EXCEPT !.tree = @ \ {song.ref_id},
                                              !.detached = @ \cup {song.ref_id},
                                              !.duration = @ - song.duration,
                                              !.num_songs = @ - 1],
                                update)

\* restore_song, lines 131-165: parent is ''; the children of '' are looked
\* up in _data (line 145), the songs are sorted on the column of _sorting
\* (line 148), and the item is attached again, or inserted when reattach
\* raised TclError (lines 154-160)
restore_song(p, song, update) ==
    IF song.ref_id \notin p.hidden
    THEN [p EXCEPT !.raised = "KeyError"]
    ELSE LET shown == [p EXCEPT !.hidden = @ \ {song.ref_id}, !.raised = ""]
         IN  IF \E r \in p.tree : r \notin DOMAIN p.data
             THEN [shown EXCEPT !.raised = "KeyError"]
             ELSE IF ~p.sortable
             THEN [shown EXCEPT !.raised = "AttributeError"]
             ELSE update_footer([shown EXCEPT !.tree = @ \cup {song.ref_id},
                                              !.detached = @ \ {song.ref_id},
                                              !.duration = @ + song.duration,
                                              !.num_songs = @ + 1],
                                update)

\* restore_all, lines 128-129: the songs one after the other, up to the
\* first call that raises
RECURSIVE restore_each(_, _)
restore_each(p, hidden_songs) ==
    IF hidden_songs = <<>>
    THEN p
    ELSE LET q == restore_song(p, Head(hidden_songs), TRUE)
         IN  IF q.raised # "" THEN q ELSE restore_each(q, Tail(hidden_songs))

\* the orders in which a set of ref_ids can be gone through
Orders(refs) ==
    {o \in [1..Cardinality(refs) -> refs] :
        \A i, j \in 1..Cardinality(refs) : o[i] = o[j] => i = j}

\* restore_all, lines 125-129: the songs of _hidden are looked up in _data
\* (line 127) in the order of the set, then restored
restore_all(p, order) ==
    IF \E r \in p.hidden : r \notin DOMAIN p.data
    THEN [p EXCEPT !.raised = "KeyError"]
    ELSE restore_each([p EXCEPT !.raised = ""],
                      [i \in 1..Len(order) |-> p.data[order[i]]])

\* remove_song, lines 167-177
remove_song(p, song, update) ==
    IF song.ref_id \notin DOMAIN p.data
    THEN [p EXCEPT !.raised = "KeyError"]
    ELSE LET dropped == [p EXCEPT !.data = without_key(@, song.ref_id),
                                  !.raised = ""]
         IN  IF song.ref_id \notin p.tree \cup p.detached
             THEN [dropped EXCEPT !.raised = "TclError"]
             ELSE update_footer([dropped EXCEPT !.tree = @ \ {song.ref_id},
                                                !.detached = @ \ {song.ref_id},
                                                !.duration = @ - song.duration,
                                                !.num_songs = @ - 1],
                                update)

AddSong ==
    /\ \E song \in ShownSongs : panel' = add_song(panel, song)
    /\ UNCHANGED generator

Clear ==
    /\ panel' = clear(panel)
    /\ UNCHANGED generator

HideSong ==
    /\ panel.num_songs >= -MaxOverdrawn
    /\ \E song \in ShownSongs, update \in BOOLEAN :
          panel' = hide_song(panel, song, update)
    /\ UNCHANGED generator

RestoreSong ==
    /\ \E song \in ShownSongs, update \in BOOLEAN :
          panel' = restore_song(panel, song, update)
    /\ UNCHANGED generator

RestoreAll ==
    /\ \E order \in Orders(panel.hidden) : panel' = restore_all(panel, order)
    /\ UNCHANGED generator

RemoveSong ==
    /\ panel.num_songs >= -MaxOverdrawn
    /\ \E song \in ShownSongs, update \in BOOLEAN :
          panel' = remove_song(panel, song, update)
    /\ UNCHANGED generator

\* a panel just constructed, beside a generator that has not run
InitPanel ==
    /\ options = DirectOptions
    /\ num_songs = MaxPool
    /\ song_id = assign_song_ids(num_songs)
    /\ songs = PlayOrder(num_songs, 1)
    /\ tracks = songs
    /\ used_card_ids = {}
    /\ gap = NoFrame
    /\ card = [card_id |-> 0, card_tracks |-> <<>>, ticket_number |-> 0]
    /\ rng = 1
    /\ args = <<>>
    /\ cmb = NoFactor
    /\ returned = 0
    /\ pc = "panel"
    /\ index = 0
    /\ abort = FALSE
    /\ observed = FALSE
    /\ written = {}
    /\ written_late = {}
    /\ error = ""
    /\ cards = <<>>
    /\ good_cards = <<>>
    /\ gac = [num_on_last |-> 0, num_second_last |-> 0, num_third_last |-> 0,
              num_fourth_last |-> 0, offset |-> 0, tier |-> 0, idx |-> 0]
    /\ irc = [point |-> 0, num_cards |-> 0, i |-> 0, len0 |-> 0, rand_point |-> 0,
              increment |-> <<>>, start_point |-> <<>>]
    /\ picked_indices = {}
    /\ win_point = 0
    /\ drawn_from = {}
    /\ discarded = FALSE
    /\ \E sortable \in BOOLEAN : panel = SongsPanel(sortable)

NextPanel ==
    \/ AddSong
    \/ Clear
    \/ HideSong
    \/ RestoreSong
    \/ RestoreAll
    \/ RemoveSong

SpecPanel == InitPanel /\ [][NextPanel]_vars

----------------------------------------------------------------------------
(* Definitions the properties are stated with. *)

\* generate_all_cards has returned to generate(), line 168
CardsReturned == pc = "tickets_pdf"

\* the 1-based position of song in the play order trk
PositionOf(trk, song) == CHOOSE p \in 1..Len(trk) : trk[p] = song

\* the position in trk at which the last of the songs in S has been played
LastPosition(trk, S) ==
    CHOOSE p \in 1..Len(trk) :
        /\ trk[p] \in S
        /\ \A song \in S : PositionOf(trk, song) <= p

\* the songs of the pool whose song_id divides the key id
SongsDividing(id) == {song \in DOMAIN song_id : id % song_id[song] = 0}

\* every ticket select_songs_for_ticket has worked on that the state holds
TicketsHeld ==
    Range(cards) \cup Range(good_cards) \cup Range(gap.cards)
        \cup (IF card.card_id = 0 THEN {} ELSE {card})

RECURSIVE KeyOf(_)
KeyOf(S) ==
    IF S = {} THEN 1
    ELSE LET song == CHOOSE x \in S : TRUE IN song_id[song] * KeyOf(S \ {song})

\* the song sets of the tickets that win at position p of the play order
TicketsWinningAt(p) ==
    IF p < 1 \/ p > Len(tracks)
    THEN {}
    ELSE {S \cup {tracks[p]} :
            S \in {X \in SUBSET {tracks[q] : q \in 1..(p - 1)} :
                      Cardinality(X) = songs_per_ticket(options) - 1}}

\* the tickets not in use that win where generate_at_point has been asked to
TicketsLeft ==
    {S \in TicketsWinningAt(Len(tracks) - gap.from_end) : KeyOf(S) \notin used_card_ids}

\* the binomial coefficient C(n, k), by Pascal's rule
RECURSIVE Binomial(_, _)
Binomial(n, k) ==
    IF k < 0 \/ k > n THEN 0
    ELSE IF k = 0 \/ k = n THEN 1
    ELSE Binomial(n - 1, k - 1) + Binomial(n - 1, k)

\* the configurations generate() has to refuse: an empty pool, a mode that is
\* no game mode, and in BINGO mode an empty game id, a pool with fewer songs
\* than one ticket holds or more than there are song ids, a ticket count
\* below MIN_CARDS or above the number of tickets the pool allows
Misconfigured ==
    \/ num_songs = 0
    \/ options.mode \notin {"BINGO", "QUIZ"}
    \/ /\ options.mode = "BINGO"
       /\ \/ options.game_id = ""
          \/ num_songs < songs_per_ticket(options)
          \/ num_songs > MAX_SONGS
          \/ options.number_of_cards < MIN_CARDS
          \/ options.number_of_cards > Binomial(num_songs, songs_per_ticket(options))

\* no draw has been made, no play order built and no ticket composed
NothingGenerated ==
    /\ drawn_from = {}
    /\ songs = <<>> /\ tracks = <<>>
    /\ card.card_tracks = <<>> /\ used_card_ids = {}
    /\ cards = <<>> /\ good_cards = <<>>
    /\ written = {}

----------------------------------------------------------------------------
(* The properties. *)

\* C1: when generate_all_cards has returned and the abort flag is not set,
\* the card_id values of the tickets of the returned list are pairwise distinct.
C1_DistinctKeys ==
    (CardsReturned /\ ~abort) =>
        \A i, j \in 1..Len(cards) : i # j => cards[i].card_id # cards[j].card_id

\* a full game has been returned
C1_Witness == CardsReturned /\ ~abort /\ Len(cards) >= MIN_CARDS

\* ticket counts for which the sizes of the tiers are added up
MaxTickets == 100

\* C2: for an accepted ticket count T, generate_all_cards (no abort) returns
\* exactly T tickets, their ticket numbers are exactly 1..T, and without
\* page_order the ticket at list index i (0-based) has number i+1; the four
\* tiers and the four spread tickets add up to T for every T from MIN_CARDS on.
C2_NumberedOneToT ==
    (CardsReturned /\ ~abort) =>
        /\ Len(cards) = options.number_of_cards
        /\ {cards[i].ticket_number : i \in 1..Len(cards)} = 1..options.number_of_cards
        /\ ~options.page_order => \A i \in 1..Len(cards) : cards[i].ticket_number = i
        /\ \A T \in MIN_CARDS..MaxTickets :
              LET n == tier_counts(T)
              IN  /\ n.num_on_last >= 0
                  /\ n.num_on_last + n.num_second_last + n.num_third_last
                        + n.num_fourth_last + 4 = T

\* a game in page order has been returned, its first two tickets not in
\* number order
C2_Witness ==
    /\ CardsReturned /\ ~abort
    /\ options.page_order
    /\ Len(cards) = options.number_of_cards
    /\ cards[2].ticket_number # 2

\* C3: whenever generate_at_point is at its loop test during the generation
\* of an accepted game, at least as many tickets not in use win at the
\* position asked for as are still to be made (so the retry loop can end).
C3_TicketsAvailable ==
    (pc = "generate_at_point" /\ ~abort) =>
        Cardinality(TicketsLeft) >= gap.amount - gap.count

\* C4: with 17 songs, tickets of 3 x 5 and 15 tickets in BINGO mode,
\* check_options raises no error (and generation goes on to succeed).
C4_SeventeenSongsAccepted ==
    (/\ num_songs = 17 /\ options.rows = 3 /\ options.columns = 5
     /\ options.number_of_cards = 15 /\ options.mode = "BINGO"
     /\ options.game_id # "") => pc # "raised"

\* C5: once the abort flag is set, no exception leaves generate_all_cards:
\* it returns normally whenever the flag is set while it runs.
C5_AbortReturnsNormally ==
    abort => error \notin {"IndexError", "KeyError", "ValueError"}

\* C6: once the abort flag has been observed, none of the game-tracks JSON,
\* the track listing, the tickets PDF, the ticket-checker file and the results
\* PDF is written.
C6_NothingPersistedAfterAbort ==
    written_late \cap {"game_tracks_json", "track_listing", "tickets_pdf",
                       "ticket_checker", "results_pdf"} = {}

\* C7: with the song ids assigned, the songs whose song_id divides the card_id
\* of a ticket are exactly the songs of the ticket, and two tickets have the
\* same card_id if and only if they hold the same set of songs.
C7_KeyIsSongSet ==
    (pc \notin {"generate", "raised"}) =>
        /\ \A t \in TicketsHeld : SongsDividing(t.card_id) = Range(t.card_tracks)
        /\ \A t, u \in TicketsHeld :
              t.card_id = u.card_id <=> Range(t.card_tracks) = Range(u.card_tracks)

\* a returned game holds two tickets that share a song and two that share none
C7_Witness ==
    /\ CardsReturned
    /\ \E i, j \in 1..Len(cards) :
          /\ Range(cards[i].card_tracks) \cap Range(cards[j].card_tracks) # {}
          /\ cards[i].card_id # cards[j].card_id
    /\ \E i, j \in 1..Len(cards) :
          Range(cards[i].card_tracks) \cap Range(cards[j].card_tracks) = {}

\* C8: for a ticket that is not empty and whose songs all occur in the play
\* order, every call of get_when_ticket_wins returns the position of the last
\* of its songs to be played, which is at least the number of songs of the
\* ticket and at most len(tracks).
C8_WinPointIsLastPosition ==
    (/\ pc \in {"won", "raised"}
     /\ card.card_tracks # <<>>
     /\ Range(card.card_tracks) \subseteq Range(tracks)) =>
        /\ pc = "won"
        /\ win_point = LastPosition(tracks, Range(card.card_tracks))
        /\ win_point >= Len(card.card_tracks)
        /\ win_point <= Len(tracks)

\* a ticket of two songs wins before the end of a play order of four
C8_Witness ==
    /\ pc = "won"
    /\ Len(card.card_tracks) = 2
    /\ Len(tracks) = 4
    /\ win_point = 3

\* C9: get_when_ticket_wins raises ValueError exactly when some song of the
\* ticket does not occur in the play order, and then returns no position.
C9_RaisesIffSongMissing ==
    (pc \in {"won", "raised"}) =>
        /\ (pc = "raised" /\ error = "ValueError")
              <=> (\E song \in Range(card.card_tracks) : song \notin Range(tracks))
        /\ pc = "raised" => win_point = 0

\* the ticket holds a song that is played and one that is not
C9_Witness ==
    /\ pc = "raised"
    /\ \E song \in Range(card.card_tracks) : song \in Range(tracks)
    /\ \E song \in Range(card.card_tracks) : song \notin Range(tracks)

\* C10: every ticket generate_at_point(tracks, amount, from_end) returns wins
\* at position len(tracks) - from_end, and when it returns with the abort flag
\* not set it returns exactly `amount` tickets.
C10_AmountAtPoint ==
    (pc = "done") =>
        /\ \A i \in 1..Len(cards) :
              LastPosition(tracks, Range(cards[i].card_tracks))
                  = Len(tracks) - gap.from_end
        /\ ~abort => Len(cards) = gap.amount

\* two tickets that win one song before the end have been returned
C10_Witness ==
    /\ pc = "done" /\ ~abort
    /\ gap.amount = 2 /\ gap.from_end = 1
    /\ Len(cards) = 2

\* C11: generate() on a configuration it has to refuse raises in its first
\* step, with no draw made of any random source, no play order built and no
\* ticket composed; and whatever error check_options raises, it raises so.
C11_ErrorsBeforeAnyWork ==
    /\ Misconfigured => (pc \in {"generate", "raised"} /\ NothingGenerated)
    /\ (pc = "raised" /\ error \notin {"IndexError", "KeyError", "ValueError"})
          => NothingGenerated

\* the last test of check_options has refused a ticket count the pool does
\* not allow
C11_Witness ==
    /\ pc = "raised"
    /\ options.number_of_cards >= MIN_CARDS
    /\ options.number_of_cards > Binomial(num_songs, songs_per_ticket(options))
    /\ num_songs >= min_songs(options)

\* C12: in BINGO mode check_options refuses every pool smaller than
\* ceil(1.5 * songs_per_ticket + 0.5), and refuses a pool for being too small
\* only if it is smaller than that.
C12_RejectsBelowCeiling ==
    LET ceiling == CeilDiv(3 * songs_per_ticket(options) + 1, 2)
    IN  (pc # "generate") =>
            /\ num_songs < ceiling => pc = "raised"
            /\ error = "At least min_songs songs are required" => num_songs < ceiling

\* C13: combinations(total, select) returns the binomial coefficient
\* C(total, select) when 0 <= select <= total, and 0 when select > total.
C13_CombinationsIsBinomial ==
    (pc = "done") =>
        returned = IF args[2] > args[1] THEN <<>>
                   ELSE Trim(cmb.pascal[args[2] + 1])

\* C14: assign_song_ids on N songs with N <= len(PRIME_NUMBERS) gives the song
\* at index i the id PRIME_NUMBERS[i], so that the N ids are pairwise
\* distinct, and returns True; with N > len(PRIME_NUMBERS) it returns False
\* and leaves the song_id of every song as it was.
C14_AssignSongIds ==
    (pc = "done") =>
        IF num_songs <= Len(PRIME_NUMBERS)
        THEN /\ returned = TRUE
             /\ \A i \in 0..(num_songs - 1) : song_id[i] = PRIME_NUMBERS[i + 1]
             /\ \A i, j \in 0..(num_songs - 1) : i # j => song_id[i] # song_id[j]
        ELSE /\ returned = FALSE
             /\ song_id = args[1]

\* a list as long as the table has had its ids assigned, over ids that were
\* all the same
C14_Witness ==
    /\ pc = "done"
    /\ num_songs = Len(PRIME_NUMBERS)
    /\ args[1][0] = 4
    /\ returned = TRUE
    /\ song_id[num_songs - 1] = PRIME_NUMBERS[num_songs]

\* C15: sort_cards_by_page on T tickets numbered 1..T returns a permutation of
\* them: every ticket occurs exactly once, none is dropped or duplicated for
\* any T, no ticket_number is changed; for T = 9 the order is
\* 1,4,7,2,5,8,3,6,9.
C15_SortIsPermutation ==
    (pc = "done") =>
        /\ Len(returned) = Len(args[1])
        /\ \A i \in 1..Len(args[1]) :
            Cardinality({j \in 1..Len(returned) : returned[j] = args[1][i]}) = 1
        /\ \A j \in 1..Len(returned) :
            returned[j].ticket_number = returned[j].card_id - 1000
        /\ Len(args[1]) = 9 =>
            [j \in 1..9 |-> returned[j].ticket_number] = <<1, 4, 7, 2, 5, 8, 3, 6, 9>>

\* ten tickets sorted: the thirds are 1..4, 5..7 and 8..10
C15_Witness ==
    /\ pc = "done"
    /\ Len(args[1]) = 10
    /\ [j \in 1..Len(returned) |-> returned[j].ticket_number]
          = <<1, 5, 8, 2, 6, 9, 3, 7, 10, 4>>

\* C16: printed in the order sort_cards_by_page returns, with the cards per
\* page of generate_tickets_pdf, two tickets with consecutive ticket numbers
\* are never on the same page.  Stated for the games generate() accepts, of
\* MIN_CARDS tickets or more.
C16_ConsecutiveOnDifferentPages ==
    (pc = "done" /\ options.number_of_cards >= MIN_CARDS) =>
        LET page == pages_printed(returned, options.rows)
        IN  \A i, j \in 1..Len(returned) :
                returned[j].ticket_number = returned[i].ticket_number + 1
                    => page[i] # page[j]

\* a ticket of exactly songs_per_ticket different songs whose key is the
\* product of their song ids
Complete(t) ==
    /\ Len(t.card_tracks) = songs_per_ticket(options)
    /\ Cardinality(Range(t.card_tracks)) = Len(t.card_tracks)
    /\ t.card_id = KeyOf(Range(t.card_tracks))

\* C17: every ticket select_songs_for_ticket completes (no abort) holds
\* exactly num_tracks songs from pairwise distinct indices of the pool and its
\* card_id is the product of the song ids of exactly those songs, also after
\* collision retries: nothing of a discarded draw remains in the ticket.
C17_CompletedTicket ==
    (pc \notin {"generate", "raised"}) =>
        /\ (pc = "ticket_selected" /\ ~abort) => Complete(card)
        /\ (pc = "select_songs_for_ticket" /\ discarded /\ picked_indices = {})
              => card = BingoTicket
        /\ \A t \in Range(cards) \cup Range(good_cards) \cup Range(gap.cards) :
              Complete(t)

\* a ticket has been completed after a draw for it was thrown away
C17_Witness ==
    /\ pc = "ticket_selected"
    /\ ~abort
    /\ discarded
    /\ Len(card.card_tracks) = songs_per_ticket(options)
    /\ card.card_id \in used_card_ids

\* C18: every random draw made during the generation of a game comes from
\* the module secrets, never from the pseudo-random generator of the module
\* random.
C18_EveryDrawFromSecrets == drawn_from \subseteq {"secrets"}

\* the keys of the tickets accepted so far in the game being generated
AcceptedKeys ==
    {t.card_id : t \in Range(cards) \cup Range(good_cards) \cup Range(gap.cards)}

\* C19: during generate_all_cards, after every completed iteration of the loop
\* of generate_at_point (and before its first, while nothing has cut an
\* iteration short), used_card_ids is exactly the set of the keys of the
\* tickets accepted so far: it starts empty, the key of a rejected ticket is
\* removed again, and that removal never fails.
C19_UsedKeysAreAcceptedKeys ==
    /\ (pc = "generate_at_point" /\ (win_point # 0 \/ ~abort))
          => used_card_ids = AcceptedKeys
    /\ error # "KeyError"

\* a ticket has just been rejected for its win point while others are held
C19_Witness ==
    /\ pc = "generate_at_point"
    /\ win_point # 0
    /\ win_point # Len(tracks) - gap.from_end
    /\ card.card_id \notin used_card_ids
    /\ Cardinality(used_card_ids) >= 2
    /\ cards # <<>>

\* the tickets of the list cs that win at position p of the play order
WinningAt(cs, p) ==
    {i \in 1..Len(cs) : LastPosition(tracks, Range(cs[i].card_tracks)) = p}

\* the number of tickets generate_all_cards schedules to win d songs before
\* the end of the play order, in a game of T tickets
Scheduled(T, d) ==
    LET t == tier_counts(T)
    IN  (IF d = 0 THEN t.num_on_last ELSE 0)
        + (IF d = 1 THEN t.num_second_last ELSE 0)
        + (IF d = 2 THEN t.num_third_last ELSE 0)
        + (IF d = 3 THEN t.num_fourth_last ELSE 0)
        + (IF d \in t.offset..(t.offset + 3) THEN 1 ELSE 0)

\* C20: in the list generate_all_cards returns (no abort) for a play order of
\* length n, num_on_last tickets win at position n, num_second_last at n-1,
\* num_third_last at n-2, num_fourth_last at n-3, and one more ticket at each
\* of n-offset, ..., n-offset-3 (offset 4 with four tiers, 3 with three); so
\* no ticket wins before position n-7 and at least one wins on the last song.
C20_WinPointsAsScheduled ==
    (CardsReturned /\ ~abort) =>
        /\ \A p \in 1..Len(tracks) :
              Cardinality(WinningAt(cards, p))
                  = Scheduled(options.number_of_cards, Len(tracks) - p)
        /\ \A p \in 1..Len(tracks) : p < Len(tracks) - 7 => WinningAt(cards, p) = {}
        /\ WinningAt(cards, Len(tracks)) # {}

\* a game of four tiers has been returned: two tickets win three songs
\* before the end, and a spread ticket seven songs before the end
C20_Witness ==
    /\ CardsReturned /\ ~abort
    /\ Len(cards) = ScheduleCards
    /\ tier_counts(ScheduleCards).offset = 4
    /\ Cardinality(WinningAt(cards, Len(tracks) - 3)) >= 2
    /\ WinningAt(cards, Len(tracks) - 7) # {}

\* the tier counts have just been computed (lines 547-569)
TiersComputed == pc = "generate_at_point" /\ gap.ret = "tier" /\ gac.tier = 0

C22_FoldsToThreeTiers ==
    TiersComputed =>
        LET T == options.number_of_cards
            f == floored_tiers(T)
            corrected == f.on_last - (4 - amount_left(T))
        IN  IF f.fourth_last \in {0, 1}
            THEN /\ gac.num_fourth_last = 0
                 /\ gac.num_on_last = corrected + 1
                 /\ gac.offset = 3
                 /\ gap.amount = gac.num_on_last
            ELSE /\ gac.num_fourth_last = f.fourth_last
                 /\ gac.num_fourth_last >= 2
                 /\ gac.num_on_last = corrected
                 /\ gac.offset = 4
                 /\ gap.amount = gac.num_on_last

\* the tiers of the smallest game that keeps its fourth tier
C22_Witness ==
    /\ TiersComputed
    /\ options.number_of_cards = 72
    /\ gac.num_fourth_last = 2
    /\ gac.offset = 4
    /\ floored_tiers(71).fourth_last = 1

\* the window whose ends are the ceilings of the exact multiples of total / k
ExactWindow(i, total, k) ==
    [start |-> CeilDiv(i * total, k), end |-> CeilDiv((i + 1) * total, k)]

\* an index of the window w, clamped to at most top, that is no more than len
Drawn(at, w, top, len) ==
    /\ w.start < w.end
    /\ \E d \in w.start..(w.end - 1) : at = Min(d, top)
    /\ at <= len

\* C23: the i-th ticket of a tier of k tickets going into a list of L goes to
\* an index drawn from the non-empty window from ceil(i*(L+k)/k) up to but not
\* including ceil((i+1)*(L+k)/k), clamped to at most num_on_last + k - 1, and
\* the index is never more than the length of the list at the insertion; the
\* four spread tickets likewise, with windows T/4 wide clamped to T - 1.
C23_IndexFromExactWindow ==
    [][/\ (pc = "insert_random_cards" /\ pc' = "generate_at_point")
            => Drawn(irc'.rand_point,
                     ExactWindow(irc.i, irc.len0 + irc.num_cards, irc.num_cards),
                     gac.num_on_last + irc.num_cards - 1,
                     Len(cards))
       /\ (pc = "place_spread" /\ gac'.idx = gac.idx + 1)
            => \E at \in 0..Len(cards) :
                  /\ Drawn(at,
                           ExactWindow(gac.idx, options.number_of_cards, 4),
                           options.number_of_cards - 1,
                           Len(cards))
                  /\ cards' = ListInsert(cards, at, good_cards[gac.idx + 1])
      ]_vars

\* the four spread tickets alone do go to indices of the exact windows
SpreadFromExactWindow ==
    [][(pc = "place_spread" /\ gac'.idx = gac.idx + 1)
            => \E at \in 0..Len(cards) :
                  /\ Drawn(at,
                           ExactWindow(gac.idx, options.number_of_cards, 4),
                           options.number_of_cards - 1,
                           Len(cards))
                  /\ cards' = ListInsert(cards, at, good_cards[gac.idx + 1])
      ]_vars

\* the songs the panel counts: those of _data that are not hidden
Counted == {r \in DOMAIN panel.data : r \notin panel.hidden}

\* C24: whatever calls of add_song, hide_song, restore_song, restore_all,
\* remove_song and clear have been made, _num_songs is the number of songs of
\* _data whose ref_id is not in _hidden, so never negative, and every ref_id
\* of _hidden is a key of _data.
C24_CountIsShownSongs ==
    /\ panel.num_songs = Cardinality(Counted)
    /\ panel.num_songs >= 0
    /\ panel.hidden \subseteq DOMAIN panel.data
=============================================================================
